---- MODULE Spec2Model ----
(***************************************************************************)
(* The placement tracker dashboard (Home component): the paginated bulk    *)
(* fetch, the initial load of the two resources, and the client-side       *)
(* aggregation, statistics and filter/sort helpers.                        *)
(*                                                                         *)
(* Strings are sequences of one-character strings, so that substring,      *)
(* toLowerCase and includes are computed, not assumed.  Compensation       *)
(* values are whole numbers; avg and median, which the code rounds to two  *)
(* decimals, are carried in hundredths (avg 2.5 is 250).                   *)
(***************************************************************************)
EXTENDS Integers, Sequences, FiniteSets, TLC

VARIABLES
    resource,       \* [table -> rows]: the remote tables, fixed during a load
    rowCap,         \* the server's per-request row cap
    chunkSize,      \* the chunkSize argument of both fetchAllRows calls
    pc,             \* [table -> position of that fetchAllRows call]
    from,           \* [table -> the local `from`]
    allRows,        \* [table -> the local `allRows`]
    inflight,       \* [table -> the range of the request in flight, or <<>>]
    offsets,        \* history: [table -> the offsets requested so far]
    pages,          \* history: [table -> the length of every page received]
    result,         \* [table -> <<the rows the call returned>>, NoResult before]
    reported,       \* history: [table -> the error the server reported, or NoError]
    thrown,         \* [table -> what the call threw, NoError when nothing]
    loadPc,         \* position of fetchData: "await" or "done"
    placements,     \* useState: the offers snapshot
    campusStats,    \* useState: the campus snapshot
    loading,        \* useState: the loading flag
    view,           \* useState: the active tab
    search,         \* useState: the search term
    sortBy,         \* useState: the sort mode
    selectedRange,  \* useState: the selected ctc range
    companyStats,   \* useMemo: the company records
    branchStats,    \* useMemo: the branch records
    monthlyTrends,  \* useMemo: the month records
    filteredCompanies,  \* filterAndSort(companyStats, "company") of the last render
    filteredBranches,   \* filterAndSort(branchStats, "branch") of the last render
    callValues,     \* the array handed to a call of calcStats
    callStats,      \* <<what that call returned>>, <<>> before
    callCtc,        \* the number handed to a call of getCtcRange
    callRange       \* what that call returned, NotCalled before

fetchVars == <<resource, rowCap, chunkSize, pc, from, allRows, inflight,
               offsets, pages, result, reported, thrown>>
homeVars == <<loadPc, placements, campusStats, loading>>
uiVars == <<view, search, sortBy, selectedRange>>
viewVars == <<companyStats, branchStats, monthlyTrends, filteredCompanies,
              filteredBranches>>
pureVars == <<callValues, callStats, callCtc, callRange>>
vars == <<fetchVars, homeVars, uiVars, viewVars, pureVars>>

----------------------------------------------------------------------------
(* Bounds *)

MaxRows == 4
MaxChunk == 3
MaxCap == 3
MaxLen == 4          \* longest array handed to calcStats
MaxValue == 3        \* values handed to calcStats are -1..MaxValue
MaxCtcArg == 60      \* numbers handed to getCtcRange are -MaxCtcArg..MaxCtcArg
MaxOffers == 3       \* most offers loaded when the aggregates are followed
MaxViewOffers == 3   \* most offers loaded when the controls are followed

----------------------------------------------------------------------------
(* Generic helpers *)

Min(a, b) == IF a < b THEN a ELSE b

Range(s) == {s[i] : i \in 1..Len(s)}

DigitChars == <<"0", "1", "2", "3", "4", "5", "6", "7", "8", "9">>

RECURSIVE NatToStr(_)
\* String(n) of a non-negative integer, as the template literals print it.
NatToStr(n) ==
    IF n < 10 THEN <<DigitChars[n + 1]>>
    ELSE NatToStr(n \div 10) \o <<DigitChars[(n % 10) + 1]>>

\* s[i..j] for 1-based i, j, empty when they are out of order
Slice(s, i, j) == [k \in 1..(j - i + 1) |-> s[i + k - 1]]

RECURSIVE SumSeq(_)
SumSeq(s) == IF s = <<>> THEN 0 ELSE s[Len(s)] + SumSeq(Slice(s, 1, Len(s) - 1))

\* Array.prototype.sort with a consistent comparator: a stable sort.
\* before[i][j] says the comparator puts s[i] before s[j] (it returns < 0).
StableSort(s, before) ==
    LET rank(i) == Cardinality({j \in 1..Len(s) :
                        \/ before[j][i]
                        \/ (~before[i][j] /\ j < i)})
    IN  [k \in 1..Len(s) |-> s[CHOOSE i \in 1..Len(s) : rank(i) = k - 1]]

\* (a, b) => a - b
NumericAscending(s) == [i \in 1..Len(s) |-> [j \in 1..Len(s) |-> s[i] - s[j] < 0]]

\* Number(x.toFixed(2)) of the quotient num / den, in hundredths: the
\* nearest hundredth, a tie away from zero.
ToFixed2(num, den) ==
    IF num >= 0 THEN (200 * num + den) \div (2 * den)
    ELSE 0 - ((200 * (0 - num) + den) \div (2 * den))

----------------------------------------------------------------------------
(* JavaScript values *)

\* null in a string-valued field.  It is no string: its element is not a
\* single character.
Null == <<"null">>

\* `x ? .. : ..` and `x || ..` on a string or null: "" and null are falsy
Truthy(x) == x # Null /\ x # <<>>

\* a value of the ctc column: a number, null, or a string
JsNumber(n) == [type |-> "number", num |-> n, str |-> <<>>]
JsNull == [type |-> "null", num |-> 0, str |-> <<>>]
JsString(s) == [type |-> "string", num |-> 0, str |-> s]

IsDigits(s) == Len(s) > 0 /\ \A i \in 1..Len(s) : \E d \in 1..10 : DigitChars[d] = s[i]

DigitValue(c) == (CHOOSE d \in 1..10 : DigitChars[d] = c) - 1

RECURSIVE StrToNat(_)
StrToNat(s) ==
    IF Len(s) = 0 THEN 0
    ELSE 10 * StrToNat(Slice(s, 1, Len(s) - 1)) + DigitValue(s[Len(s)])

\* `Number(x) || 0`: Number(null) is 0, a string of digits is its number,
\* "" is 0, any other string is NaN and so 0
NumberOrZero(x) ==
    IF x.type = "number" THEN x.num
    ELSE IF x.type = "string" /\ IsDigits(x.str) THEN StrToNat(x.str)
    ELSE 0

UpperChars == <<"A", "B", "C", "D", "E", "F", "G", "H", "I", "J", "K", "L", "M",
                "N", "O", "P", "Q", "R", "S", "T", "U", "V", "W", "X", "Y", "Z">>
LowerChars == <<"a", "b", "c", "d", "e", "f", "g", "h", "i", "j", "k", "l", "m",
                "n", "o", "p", "q", "r", "s", "t", "u", "v", "w", "x", "y", "z">>

LowerChar(c) ==
    IF \E i \in 1..26 : UpperChars[i] = c
    THEN LowerChars[CHOOSE i \in 1..26 : UpperChars[i] = c]
    ELSE c

\* String.prototype.toLowerCase
ToLowerCase(s) == [i \in 1..Len(s) |-> LowerChar(s[i])]

\* String.prototype.includes
Includes(s, sub) ==
    \E i \in 0..(Len(s) - Len(sub)) : Slice(s, i + 1, i + Len(sub)) = sub

\* String.prototype.substring(lo, hi) for 0 <= lo <= hi
Substring(s, lo, hi) == Slice(s, Min(lo, Len(s)) + 1, Min(hi, Len(s)))

\* new Date(x) in local time.  A timestamp is kept as its "YYYY-MM" part and
\* the local time zone is taken to be UTC; new Date(null) is the epoch; any
\* other string is an Invalid Date.
NewDate(x) ==
    IF x = Null THEN [valid |-> TRUE, year |-> 1970, month |-> 0]
    ELSE IF /\ Len(x) = 7
            /\ IsDigits(Slice(x, 1, 4))
            /\ x[5] = "-"
            /\ IsDigits(Slice(x, 6, 7))
            /\ StrToNat(Slice(x, 6, 7)) \in 1..12
         THEN [valid |-> TRUE, year |-> StrToNat(Slice(x, 1, 4)),
               month |-> StrToNat(Slice(x, 6, 7)) - 1]
         ELSE [valid |-> FALSE, year |-> 0, month |-> 0]

MonthNames == << <<"J", "a", "n">>, <<"F", "e", "b">>, <<"M", "a", "r">>,
                 <<"A", "p", "r">>, <<"M", "a", "y">>, <<"J", "u", "n">>,
                 <<"J", "u", "l">>, <<"A", "u", "g">>, <<"S", "e", "p">>,
                 <<"O", "c", "t">>, <<"N", "o", "v">>, <<"D", "e", "c">> >>

\* d.toLocaleString("default", {month: "short", year: "numeric"})
MonthLabel(d) ==
    IF d.valid THEN MonthNames[d.month + 1] \o <<" ">> \o NatToStr(d.year)
    ELSE <<"I", "n", "v", "a", "l", "i", "d", " ", "D", "a", "t", "e">>

\* a key made of the month number alone
MonthKeyWithoutYear(d) ==
    IF d.valid THEN NatToStr(d.month + 1)
    ELSE <<"N", "a", "N">>

\* `${d.getFullYear()}-${d.getMonth() + 1}`
MonthKey(d) ==
    IF d.valid THEN NatToStr(d.year) \o <<"-">> \o NatToStr(d.month + 1)
    ELSE <<"N", "a", "N", "-", "N", "a", "N">>

\* A plain object used as a map: its entries [key, val] in insertion order.
\* (Keys that name properties of Object.prototype are not modelled.)
HasKey(obj, k) == \E i \in 1..Len(obj) : obj[i].key = k

KeyIndex(obj, k) == CHOOSE i \in 1..Len(obj) : obj[i].key = k

\* an integer-like key ("0", "7", "123"): its entry is listed first
IsIndexKey(k) == IsDigits(k) /\ (k[1] # "0" \/ Len(k) = 1)

IndexKeysFirst(obj) ==
    [i \in 1..Len(obj) |-> [j \in 1..Len(obj) |->
        /\ IsIndexKey(obj[i].key)
        /\ (~IsIndexKey(obj[j].key) \/ StrToNat(obj[i].key) < StrToNat(obj[j].key))]]

\* Object.values: integer-like keys ascending, then the others as inserted
ObjectValues(obj) ==
    LET ordered == StableSort(obj, IndexKeysFirst(obj))
    IN  [i \in 1..Len(obj) |-> ordered[i].val]

----------------------------------------------------------------------------
(* calcStats and getCtcRange *)

\* a calcStats that takes the middle of the array as it comes
calcStatsUnsorted(values) ==
    IF Len(values) = 0 THEN [avg |-> 0, median |-> 0, values |-> values]
    ELSE LET sorted == values
             mid == Len(sorted) \div 2
         IN  [avg |-> ToFixed2(SumSeq(values), Len(values)),
              median |-> IF Len(sorted) % 2 # 0
                         THEN ToFixed2(sorted[mid + 1], 1)
                         ELSE ToFixed2(sorted[mid] + sorted[mid + 1], 2),
              values |-> values]

\* avg and median in hundredths; `values` is the caller's array after the
\* call (the sort works on a copy).  Indices are 1-based: sorted[mid] of the
\* code is sorted[mid + 1] here.
calcStats(values) ==
    IF Len(values) = 0 THEN [avg |-> 0, median |-> 0, values |-> values]
    ELSE LET sorted == StableSort(values, NumericAscending(values))
             mid == Len(sorted) \div 2
         IN  [avg |-> ToFixed2(SumSeq(values), Len(values)),
              median |-> IF Len(sorted) % 2 # 0
                         THEN ToFixed2(sorted[mid + 1], 1)
                         ELSE ToFixed2(sorted[mid] + sorted[mid + 1], 2),
              values |-> values]

\* a ladder whose "20+" step has no upper threshold
getCtcRangeOpen20(ctc) ==
    IF ctc < 5 THEN "<5"
    ELSE IF ctc < 10 THEN "5-10"
    ELSE IF ctc < 15 THEN "10-15"
    ELSE IF ctc < 20 THEN "15-20"
    ELSE "20+"

getCtcRange(ctc) ==
    IF ctc < 5 THEN "<5"
    ELSE IF ctc < 10 THEN "5-10"
    ELSE IF ctc < 15 THEN "10-15"
    ELSE IF ctc < 20 THEN "15-20"
    ELSE IF ctc < 30 THEN "20+"
    ELSE "30+"

----------------------------------------------------------------------------
(* The derived views of Home *)

Unknown == <<"U", "n", "k", "n", "o", "w", "n">>

getBranch(reg) == IF Truthy(reg) THEN Substring(reg, 2, 5) ELSE <<"U", "N", "K">>

SetVal(obj, k, v) == [obj EXCEPT ![KeyIndex(obj, k)].val = v]

\* a callback that assigns month on every offer, like ctc and ctcRange
CompanyStepOverwritesMonth(stats, p) ==
    LET comp == IF Truthy(p.company) THEN p.company ELSE Unknown
        s1 == IF ~HasKey(stats, comp)
              THEN Append(stats, [key |-> comp,
                                  val |-> [company |-> comp, total |-> 0,
                                           month |-> <<>>, ctc |-> 0, ctcRange |-> ""]])
              ELSE stats
        ctc == NumberOrZero(p.ctc)
        old == s1[KeyIndex(s1, comp)].val
    IN  SetVal(s1, comp, [old EXCEPT !.total = @ + 1,
                                     !.month = MonthLabel(NewDate(p.created_at)),
                                     !.ctc = ctc,
                                     !.ctcRange = getCtcRange(ctc)])

\* a callback that assigns ctc and ctcRange only when the record is created
CompanyStepKeepsFirstCtc(stats, p) ==
    LET comp == IF Truthy(p.company) THEN p.company ELSE Unknown
        ctc == NumberOrZero(p.ctc)
        s1 == IF ~HasKey(stats, comp)
              THEN Append(stats, [key |-> comp,
                                  val |-> [company |-> comp, total |-> 0,
                                           month |-> MonthLabel(NewDate(p.created_at)),
                                           ctc |-> ctc, ctcRange |-> getCtcRange(ctc)]])
              ELSE stats
        old == s1[KeyIndex(s1, comp)].val
    IN  SetVal(s1, comp, [old EXCEPT !.total = @ + 1])

\* the forEach callback of companyStats
CompanyStep(stats, p) ==
    LET comp == IF Truthy(p.company) THEN p.company ELSE Unknown
        s1 == IF ~HasKey(stats, comp)
              THEN Append(stats, [key |-> comp,
                                  val |-> [company |-> comp, total |-> 0,
                                           month |-> MonthLabel(NewDate(p.created_at)),
                                           ctc |-> 0, ctcRange |-> ""]])
              ELSE stats
        ctc == NumberOrZero(p.ctc)
        old == s1[KeyIndex(s1, comp)].val
    IN  SetVal(s1, comp, [old EXCEPT !.total = @ + 1,
                                     !.ctc = ctc,
                                     !.ctcRange = getCtcRange(ctc)])

RECURSIVE CompanyFold(_, _)
\* `stats` after the first n offers
CompanyFold(offers, n) ==
    IF n = 0 THEN <<>> ELSE CompanyStep(CompanyFold(offers, n - 1), offers[n])

CompanyStatsOf(offers) == ObjectValues(CompanyFold(offers, Len(offers)))

\* a callback that collects a compensation only when it is a non-zero number
BranchStepSkipsMissingCtc(stats, p) ==
    LET branch == getBranch(p.reg_no)
        s1 == IF ~HasKey(stats, branch)
              THEN Append(stats, [key |-> branch,
                                  val |-> [branch |-> branch, total |-> 0,
                                           ctcValues |-> <<>>]])
              ELSE stats
        old == s1[KeyIndex(s1, branch)].val
    IN  SetVal(s1, branch, [old EXCEPT !.total = @ + 1,
                                       !.ctcValues = IF NumberOrZero(p.ctc) = 0 THEN @
                                                     ELSE Append(@, NumberOrZero(p.ctc))])

\* the forEach callback of branchStats
BranchStep(stats, p) ==
    LET branch == getBranch(p.reg_no)
        s1 == IF ~HasKey(stats, branch)
              THEN Append(stats, [key |-> branch,
                                  val |-> [branch |-> branch, total |-> 0,
                                           ctcValues |-> <<>>]])
              ELSE stats
        old == s1[KeyIndex(s1, branch)].val
    IN  SetVal(s1, branch, [old EXCEPT !.total = @ + 1,
                                       !.ctcValues = Append(@, NumberOrZero(p.ctc))])

RECURSIVE BranchFold(_, _)
BranchFold(offers, n) ==
    IF n = 0 THEN <<>> ELSE BranchStep(BranchFold(offers, n - 1), offers[n])

\* { ...b, ...calcStats(b.ctcValues) }
WithStats(b) ==
    LET r == calcStats(b.ctcValues)
    IN  [branch |-> b.branch, total |-> b.total, ctcValues |-> r.values,
         avg |-> r.avg, median |-> r.median]

BranchStatsOf(offers) ==
    LET vals == ObjectValues(BranchFold(offers, Len(offers)))
    IN  [i \in 1..Len(vals) |-> WithStats(vals[i])]

\* the forEach callback of monthlyTrends
MonthStep(stats, p) ==
    LET d == NewDate(p.created_at)
        key == MonthKey(d)
        label == MonthLabel(d)
        s1 == IF ~HasKey(stats, key)
              THEN Append(stats, [key |-> key, val |-> [month |-> label, total |-> 0]])
              ELSE stats
        old == s1[KeyIndex(s1, key)].val
    IN  SetVal(s1, key, [old EXCEPT !.total = @ + 1])

RECURSIVE MonthFold(_, _)
MonthFold(offers, n) ==
    IF n = 0 THEN <<>> ELSE MonthStep(MonthFold(offers, n - 1), offers[n])

MonthlyTrendsOf(offers) == ObjectValues(MonthFold(offers, Len(offers)))

----------------------------------------------------------------------------
(* filterAndSort and the render *)

\* Array.prototype.filter: keep[i] is what the callback returns for s[i]
FilterSeq(s, keep) ==
    LET kept == {i \in 1..Len(s) : keep[i]}
        nth(k) == CHOOSE i \in kept : Cardinality({j \in kept : j < i}) = k - 1
    IN  [k \in 1..Cardinality(kept) |-> s[nth(k)]]

\* `d.avg || 0`, `d.median || 0`: a record without the field counts as 0
AvgOrZero(d) == IF "avg" \in DOMAIN d THEN d.avg ELSE 0
MedianOrZero(d) == IF "median" \in DOMAIN d THEN d.median ELSE 0

\* (a, b) => b.total - a.total and its two siblings
ByTotalDescending(s) ==
    [i \in 1..Len(s) |-> [j \in 1..Len(s) |-> s[j].total - s[i].total < 0]]
ByAvgDescending(s) ==
    [i \in 1..Len(s) |-> [j \in 1..Len(s) |-> AvgOrZero(s[j]) - AvgOrZero(s[i]) < 0]]
ByMedianDescending(s) ==
    [i \in 1..Len(s) |-> [j \in 1..Len(s) |-> MedianOrZero(s[j]) - MedianOrZero(s[i]) < 0]]

\* a filterAndSort whose range filter does not test the type
filterAndSortRangeOnAnyType(data, type, search_, selectedRange_, sortBy_) ==
    LET matches(d) == Includes(ToLowerCase(IF type = "company" THEN d.company ELSE d.branch),
                               ToLowerCase(search_))
        inRange(d) == "ctcRange" \in DOMAIN d /\ d.ctcRange = selectedRange_
        f1 == IF Truthy(search_)
              THEN FilterSeq(data, [i \in 1..Len(data) |-> matches(data[i])])
              ELSE data
        f2 == IF selectedRange_ # "all"
              THEN FilterSeq(f1, [i \in 1..Len(f1) |-> inRange(f1[i])]) ELSE f1
    IN  [data |-> data,
         out |-> IF sortBy_ = "students" THEN StableSort(f2, ByTotalDescending(f2))
                 ELSE IF sortBy_ = "avg" THEN StableSort(f2, ByAvgDescending(f2))
                 ELSE IF sortBy_ = "median" THEN StableSort(f2, ByMedianDescending(f2))
                 ELSE f2]

\* `out` is the returned array, `data` the argument array after the call.
\* search_, selectedRange_ and sortBy_ are the state the render reads.
filterAndSort(data, type, search_, selectedRange_, sortBy_) ==
    LET matches(d) == Includes(ToLowerCase(IF type = "company" THEN d.company ELSE d.branch),
                               ToLowerCase(search_))
        inRange(d) == d.ctcRange = selectedRange_
        f1 == IF Truthy(search_)
              THEN FilterSeq(data, [i \in 1..Len(data) |-> matches(data[i])])
              ELSE data
        f2 == IF type = "company" /\ selectedRange_ # "all"
              THEN FilterSeq(f1, [i \in 1..Len(f1) |-> inRange(f1[i])]) ELSE f1
    IN  [data |-> data,
         out |-> IF sortBy_ = "students" THEN StableSort(f2, ByTotalDescending(f2))
                 ELSE IF sortBy_ = "avg" THEN StableSort(f2, ByAvgDescending(f2))
                 ELSE IF sortBy_ = "median" THEN StableSort(f2, ByMedianDescending(f2))
                 ELSE f2]

\* One render of Home: cs, bs and mt are the values of the three useMemo
\* hooks (recomputed when placements changed, kept otherwise).
Render(cs, bs, mt, search_, selectedRange_, sortBy_) ==
    LET fc == filterAndSort(cs, "company", search_, selectedRange_, sortBy_)
        fb == filterAndSort(bs, "branch", search_, selectedRange_, sortBy_)
    IN  /\ companyStats' = fc.data
        /\ branchStats' = fb.data
        /\ monthlyTrends' = mt
        /\ filteredCompanies' = fc.out
        /\ filteredBranches' = fb.out

----------------------------------------------------------------------------
(* The remote tables *)

Tables == {"Offer", "Campus_Data"}

NoResult == <<>>

NoError == "no error"

\* what a failing request reports in `error`
Errors == {"timeout", "denied"}

\* row i of Offer: every other row has no company, every third no reg_no
OfferRow(i) ==
    [id |-> i,
     company |-> IF i % 2 = 1 THEN <<"A", "b">> ELSE Null,
     ctc |-> JsNumber(6 * i),
     reg_no |-> IF i % 3 = 0 THEN Null ELSE <<"2", "1", "B", "C", "E">> \o NatToStr(i),
     created_at |-> <<"2", "0", "2", "5", "-", "0">> \o NatToStr(i)]

CampusRow(i) == [id |-> i, Campus |-> <<"C">> \o NatToStr(i), Students |-> 100 * i]

TableRows(t, n) ==
    [i \in 1..n |-> IF t = "Offer" THEN OfferRow(i) ELSE CampusRow(i)]

\* .range(lo, hi): the rows at the 0-based positions lo..hi, both inclusive,
\* cut to the server's per-request cap.
ServerRange(rows, lo, hi, cap) ==
    SubSeq(rows, lo + 1, Min(Len(rows), Min(hi + 1, lo + cap)))

----------------------------------------------------------------------------
(* fetchAllRows *)

\* the request of one loop turn is issued
SendRequest(t) ==
    /\ pc[t] = "request"
    /\ inflight' = [inflight EXCEPT ![t] = <<from[t], from[t] + chunkSize - 1>>]
    /\ offsets' = [offsets EXCEPT ![t] = Append(@, from[t])]
    /\ pc' = [pc EXCEPT ![t] = "await"]
    /\ UNCHANGED <<resource, rowCap, chunkSize, from, allRows, pages, result,
                   reported, thrown>>
    /\ UNCHANGED <<homeVars, uiVars, viewVars, pureVars>>

\* a loop body that advances the offset by one row too few
AfterDataOverlaps(t, data) ==
    IF Len(data) = 0
    THEN /\ pc' = [pc EXCEPT ![t] = "done"]
         /\ result' = [result EXCEPT ![t] = <<allRows[t]>>]
         /\ UNCHANGED <<allRows, from>>
    ELSE /\ allRows' = [allRows EXCEPT ![t] = @ \o data]
         /\ IF Len(data) < chunkSize
            THEN /\ pc' = [pc EXCEPT ![t] = "done"]
                 /\ result' = [result EXCEPT ![t] = <<allRows'[t]>>]
                 /\ UNCHANGED from
            ELSE /\ from' = [from EXCEPT ![t] = @ + chunkSize - 1]
                 /\ pc' = [pc EXCEPT ![t] = "request"]
                 /\ UNCHANGED result

\* a loop body that tests `data.length <= chunkSize` for the last batch
AfterDataStopsOnFullPage(t, data) ==
    IF Len(data) = 0
    THEN /\ pc' = [pc EXCEPT ![t] = "done"]
         /\ result' = [result EXCEPT ![t] = <<allRows[t]>>]
         /\ UNCHANGED <<allRows, from>>
    ELSE /\ allRows' = [allRows EXCEPT ![t] = @ \o data]
         /\ IF Len(data) <= chunkSize
            THEN /\ pc' = [pc EXCEPT ![t] = "done"]
                 /\ result' = [result EXCEPT ![t] = <<allRows'[t]>>]
                 /\ UNCHANGED from
            ELSE /\ from' = [from EXCEPT ![t] = @ + chunkSize]
                 /\ pc' = [pc EXCEPT ![t] = "request"]
                 /\ UNCHANGED result

\* the loop body after a response without error
AfterData(t, data) ==
    IF Len(data) = 0
    THEN /\ pc' = [pc EXCEPT ![t] = "done"]
         /\ result' = [result EXCEPT ![t] = <<allRows[t]>>]
         /\ UNCHANGED <<allRows, from>>
    ELSE /\ allRows' = [allRows EXCEPT ![t] = @ \o data]
         /\ IF Len(data) < chunkSize
            THEN /\ pc' = [pc EXCEPT ![t] = "done"]
                 /\ result' = [result EXCEPT ![t] = <<allRows'[t]>>]
                 /\ UNCHANGED from
            ELSE /\ from' = [from EXCEPT ![t] = @ + chunkSize]
                 /\ pc' = [pc EXCEPT ![t] = "request"]
                 /\ UNCHANGED result

\* the awaited request answers with data
ReceiveData(t) ==
    /\ pc[t] = "await"
    /\ LET data == ServerRange(resource[t], inflight[t][1], inflight[t][2], rowCap)
       IN  /\ pages' = [pages EXCEPT ![t] = Append(@, Len(data))]
           /\ AfterData(t, data)
    /\ inflight' = [inflight EXCEPT ![t] = <<>>]
    /\ UNCHANGED <<resource, rowCap, chunkSize, offsets, reported, thrown>>
    /\ UNCHANGED <<homeVars, uiVars, viewVars, pureVars>>

\* an error handled like an empty page: `break`, and the rows so far returned
AfterErrorBreaks(t, error) ==
    /\ pc' = [pc EXCEPT ![t] = "done"]
    /\ result' = [result EXCEPT ![t] = <<allRows[t]>>]
    /\ UNCHANGED <<from, allRows, thrown>>

\* `if (error) throw error`: the call ends by throwing what was reported
AfterError(t, error) ==
    /\ pc' = [pc EXCEPT ![t] = "failed"]
    /\ thrown' = [thrown EXCEPT ![t] = error]
    /\ UNCHANGED <<from, allRows, result>>

\* the awaited request answers with an error
ReceiveError(t) ==
    /\ pc[t] = "await"
    /\ \E error \in Errors :
          /\ reported' = [reported EXCEPT ![t] = error]
          /\ AfterError(t, error)
    /\ inflight' = [inflight EXCEPT ![t] = <<>>]
    /\ UNCHANGED <<resource, rowCap, chunkSize, offsets, pages>>
    /\ UNCHANGED <<homeVars, uiVars, viewVars, pureVars>>

----------------------------------------------------------------------------
(* Home: the initial load *)

CampusMap(campuses) ==
    [i \in 1..Len(campuses) |->
        [campus |-> campuses[i].Campus, students |-> campuses[i].Students]]

\* Promise.all fulfilled: the rest of the try block and the finally block
\* run in one turn of the event loop
LoadSucceed ==
    /\ loadPc = "await"
    /\ \A t \in Tables : pc[t] = "done"
    /\ LET offers == result["Offer"][1]
           campuses == result["Campus_Data"][1]
       IN  /\ placements' = offers
           /\ campusStats' = CampusMap(campuses)
           /\ loading' = FALSE
           /\ loadPc' = "done"
           /\ Render(CompanyStatsOf(offers), BranchStatsOf(offers),
                     MonthlyTrendsOf(offers), search, selectedRange, sortBy)
    /\ UNCHANGED <<fetchVars, uiVars, pureVars>>

\* a load that keeps what the fetches that succeeded so far returned
LoadFailKeepsPartial ==
    /\ loadPc = "await"
    /\ \E t \in Tables : pc[t] = "failed"
    /\ placements' = IF pc["Offer"] = "done" THEN result["Offer"][1] ELSE placements
    /\ campusStats' = IF pc["Campus_Data"] = "done"
                      THEN CampusMap(result["Campus_Data"][1]) ELSE campusStats
    /\ loading' = FALSE
    /\ loadPc' = "done"
    /\ Render(CompanyStatsOf(placements'), BranchStatsOf(placements'),
              MonthlyTrendsOf(placements'), search, selectedRange, sortBy)
    /\ UNCHANGED <<fetchVars, uiVars, pureVars>>

\* a catch branch with no finally after it: the flag is left as it was
LoadFailStaysLoading ==
    /\ loadPc = "await"
    /\ \E t \in Tables : pc[t] = "failed"
    /\ loadPc' = "done"
    /\ UNCHANGED <<placements, campusStats, loading>>
    /\ Render(companyStats, branchStats, monthlyTrends, search, selectedRange, sortBy)
    /\ UNCHANGED <<fetchVars, uiVars, pureVars>>

\* Promise.all rejected by the first failing fetch: catch, then finally.
\* The other fetch is not cancelled; its outcome is dropped.
LoadFail ==
    /\ loadPc = "await"
    /\ \E t \in Tables : pc[t] = "failed"
    /\ loading' = FALSE
    /\ loadPc' = "done"
    /\ UNCHANGED <<placements, campusStats>>
    /\ Render(companyStats, branchStats, monthlyTrends, search, selectedRange, sortBy)
    /\ UNCHANGED <<fetchVars, uiVars, pureVars>>

NotCalled == "not called"

PureIdle ==
    /\ callValues = <<>>
    /\ callStats = <<>>
    /\ callCtc = 0
    /\ callRange = NotCalled

\* Home before the load finished
HomeLoading ==
    /\ loadPc = "await"
    /\ placements = <<>>
    /\ campusStats = <<>>
    /\ loading = TRUE
    /\ view = "overall"
    /\ search = <<>>
    /\ sortBy = "students"
    /\ selectedRange = "all"
    /\ companyStats = <<>>
    /\ branchStats = <<>>
    /\ monthlyTrends = <<>>
    /\ filteredCompanies = <<>>
    /\ filteredBranches = <<>>

\* the component as mounted, no request issued yet
Mounted ==
    /\ pc = [t \in Tables |-> "request"]
    /\ from = [t \in Tables |-> 0]
    /\ allRows = [t \in Tables |-> <<>>]
    /\ inflight = [t \in Tables |-> <<>>]
    /\ offsets = [t \in Tables |-> <<>>]
    /\ pages = [t \in Tables |-> <<>>]
    /\ result = [t \in Tables |-> NoResult]
    /\ reported = [t \in Tables |-> NoError]
    /\ thrown = [t \in Tables |-> NoError]
    /\ HomeLoading

Init ==
    /\ PureIdle
    /\ \E n \in [Tables -> 0..MaxRows] :
          resource = [t \in Tables |-> TableRows(t, n[t])]
    /\ rowCap \in 1..MaxCap
    /\ chunkSize \in 1..MaxChunk
    /\ Mounted

Next ==
    \/ \E t \in Tables : SendRequest(t)
    \/ \E t \in Tables : ReceiveData(t)
    \/ \E t \in Tables : ReceiveError(t)
    \/ LoadSucceed
    \/ LoadFail

Spec == Init /\ [][Next]_vars

\* The continuation of Promise.all as loadPc sees it: the step LoadSucceed or
\* LoadFail, whichever the outcome of the fetches enables.
LoadSettles ==
    /\ loadPc = "await"
    /\ \/ \A t \in Tables : pc[t] = "done"
       \/ \E t \in Tables : pc[t] = "failed"
    /\ loadPc' = "done"

\* Every request in flight is answered, every loop turn and every promise
\* continuation is run by the event loop.
Fairness ==
    /\ \A t \in Tables : WF_vars(SendRequest(t))
    /\ \A t \in Tables : WF_vars(ReceiveData(t) \/ ReceiveError(t))
    /\ WF_loadPc(LoadSettles)

FairSpec == Spec /\ Fairness

----------------------------------------------------------------------------
(* calcStats and getCtcRange on their own: the argument is drawn at the     *)
(* start and one call is made                                               *)

\* the load is left out: empty tables, nothing requested
NoLoad ==
    /\ resource = [t \in Tables |-> <<>>]
    /\ rowCap = 1
    /\ chunkSize = 1
    /\ Mounted

RECURSIVE SeqsUpTo(_, _)
\* the sequences over S of length at most n
SeqsUpTo(S, n) ==
    IF n = 0 THEN {<<>>}
    ELSE LET shorter == SeqsUpTo(S, n - 1)
         IN  shorter \cup {Append(s, x) : s \in shorter, x \in S}

CalcStatsCall ==
    /\ callStats = <<>>
    /\ LET r == calcStats(callValues)
       IN  /\ callStats' = <<[avg |-> r.avg, median |-> r.median]>>
           /\ callValues' = r.values
    /\ UNCHANGED <<callCtc, callRange>>
    /\ UNCHANGED <<fetchVars, homeVars, uiVars, viewVars>>

InitStats ==
    /\ NoLoad
    /\ callValues \in SeqsUpTo((0 - 1)..MaxValue, MaxLen)
    /\ callStats = <<>>
    /\ callCtc = 0
    /\ callRange = NotCalled

NextStats == CalcStatsCall

SpecStats == InitStats /\ [][NextStats]_vars

GetCtcRangeCall ==
    /\ callRange = NotCalled
    /\ callRange' = getCtcRange(callCtc)
    /\ UNCHANGED <<callValues, callStats, callCtc>>
    /\ UNCHANGED <<fetchVars, homeVars, uiVars, viewVars>>

InitCtcRange ==
    /\ NoLoad
    /\ callValues = <<>>
    /\ callStats = <<>>
    /\ callCtc \in (0 - MaxCtcArg)..MaxCtcArg
    /\ callRange = NotCalled

NextCtcRange == GetCtcRangeCall

SpecCtcRange == InitCtcRange /\ [][NextCtcRange]_vars

----------------------------------------------------------------------------
(* The aggregates on their own: both fetches have returned, the offers are  *)
(* drawn at the start, and the load finishes                                *)

\* both calls of fetchAllRows returned after a single short page
FetchesReturned(offers, campuses) ==
    /\ resource = [t \in Tables |-> IF t = "Offer" THEN offers ELSE campuses]
    /\ rowCap = Len(offers) + Len(campuses) + 1
    /\ chunkSize = Len(offers) + Len(campuses) + 1
    /\ pc = [t \in Tables |-> "done"]
    /\ from = [t \in Tables |-> 0]
    /\ allRows = resource
    /\ inflight = [t \in Tables |-> <<>>]
    /\ offsets = [t \in Tables |-> <<0>>]
    /\ pages = [t \in Tables |-> <<Len(resource[t])>>]
    /\ result = [t \in Tables |-> <<resource[t]>>]
    /\ reported = [t \in Tables |-> NoError]
    /\ thrown = [t \in Tables |-> NoError]

Offer(company, ctc, reg_no, created_at) ==
    [company |-> company, ctc |-> ctc, reg_no |-> reg_no, created_at |-> created_at]

Jan2024 == <<"2", "0", "2", "4", "-", "0", "1">>
Jan2025 == <<"2", "0", "2", "5", "-", "0", "1">>
Dec2024 == <<"2", "0", "2", "4", "-", "1", "2">>
BadDate == <<"n", "/", "a">>

RegBCE == <<"2", "1", "B", "C", "E", "1", "0", "0", "1">>
RegBCI == <<"2", "2", "B", "C", "I", "2", "0", "0", "2">>
RegShort == <<"2", "1", "B">>

Reg123 == <<"2", "1", "1", "2", "3", "4">>
RegTwo == <<"2", "1">>

\* The offers drawn.  Each company, branch and month comes with several
\* ctc values; company, reg_no and created_at are each missing (null or "")
\* or unusable somewhere; one reg_no gives an integer-like branch code.
AggOffers ==
    {Offer(<<"A">>, JsNumber(3), RegBCE, Jan2024),
     Offer(<<"A">>, JsNumber(7), RegBCE, Jan2025),
     Offer(<<"A">>, JsString(<<"x">>), RegBCI, Dec2024),
     Offer(<<"A">>, JsNumber(30), Null, BadDate),
     Offer(<<"B">>, JsNumber(7), RegBCI, Jan2024),
     Offer(<<"B">>, JsNumber(3), RegShort, Jan2025),
     Offer(<<"B">>, JsNull, RegBCE, BadDate),
     Offer(<<"B">>, JsNumber(16), Reg123, Jan2024),
     Offer(Null, JsNumber(7), Null, Jan2024),
     Offer(Null, JsNull, Null, Null),
     Offer(<<>>, JsString(<<"1", "2">>), <<>>, Dec2024),
     Offer(<<"B">>, JsNumber(3), RegTwo, Dec2024)}

InitAgg ==
    /\ PureIdle
    /\ \E offers \in SeqsUpTo(AggOffers, MaxOffers) : FetchesReturned(offers, <<>>)
    /\ HomeLoading

NextAgg == LoadSucceed

SpecAgg == InitAgg /\ [][NextAgg]_vars

----------------------------------------------------------------------------
(* The controls: both fetches have returned, the load finishes, and the     *)
(* tabs, the search box and the two selects are used                        *)

Tabs == {"overall", "company", "branch"}
SortModes == {"students", "avg", "median"}
RangeOptions == {"all", "<5", "5-10", "10-15", "15-20", "20+", "30+"}

\* what is typed into the search box
SearchTerms == {<<>>, <<"e", "n", "g">>, <<"B">>}

\* the tab buttons: setView(tab); setSearch("")
SetView(tab) ==
    /\ ~loading
    /\ view' = tab
    /\ search' = <<>>
    /\ UNCHANGED <<sortBy, selectedRange>>
    /\ Render(companyStats, branchStats, monthlyTrends, search', selectedRange', sortBy')
    /\ UNCHANGED <<fetchVars, homeVars, pureVars>>

\* the search box, shown on the company and branch tabs
SetSearch(term) ==
    /\ ~loading
    /\ view # "overall"
    /\ search' = term
    /\ UNCHANGED <<view, sortBy, selectedRange>>
    /\ Render(companyStats, branchStats, monthlyTrends, search', selectedRange', sortBy')
    /\ UNCHANGED <<fetchVars, homeVars, pureVars>>

\* the sort select, shown on the company and branch tabs
SetSortBy(mode) ==
    /\ ~loading
    /\ view # "overall"
    /\ sortBy' = mode
    /\ UNCHANGED <<view, search, selectedRange>>
    /\ Render(companyStats, branchStats, monthlyTrends, search', selectedRange', sortBy')
    /\ UNCHANGED <<fetchVars, homeVars, pureVars>>

\* the range select, shown on the company tab
SetSelectedRange(range) ==
    /\ ~loading
    /\ view = "company"
    /\ selectedRange' = range
    /\ UNCHANGED <<view, search, sortBy>>
    /\ Render(companyStats, branchStats, monthlyTrends, search', selectedRange', sortBy')
    /\ UNCHANGED <<fetchVars, homeVars, pureVars>>

RegENG == <<"2", "1", "E", "N", "G", "7">>
RegSCI == <<"2", "1", "S", "C", "I", "8">>

ViewOffers ==
    {Offer(<<"A", "b">>, JsNumber(3), RegENG, Jan2024),
     Offer(<<"A", "b">>, JsNumber(30), RegSCI, Jan2024),
     Offer(<<"S", "b">>, JsNumber(7), RegSCI, Jan2025)}

InitView ==
    /\ PureIdle
    /\ \E offers \in SeqsUpTo(ViewOffers, MaxViewOffers) : FetchesReturned(offers, <<>>)
    /\ HomeLoading

NextView ==
    \/ LoadSucceed
    \/ \E tab \in Tabs : SetView(tab)
    \/ \E term \in SearchTerms : SetSearch(term)
    \/ \E mode \in SortModes : SetSortBy(mode)
    \/ \E range \in RangeOptions : SetSelectedRange(range)

SpecView == InitView /\ [][NextView]_vars

----------------------------------------------------------------------------
(* Claims about the aggregates *)

Loaded == loadPc = "done" /\ \A t \in Tables : pc[t] = "done"

\* the company an offer is counted under
CompanyOf(p) ==
    IF p.company = Null \/ p.company = <<>> THEN Unknown ELSE p.company

\* the compensation of an offer, missing or non-numeric taken as 0
CtcOf(p) ==
    CASE p.ctc.type = "number" -> p.ctc.num
      [] p.ctc.type = "string" /\ IsDigits(p.ctc.str) -> StrToNat(p.ctc.str)
      [] OTHER -> 0

OffersOfCompany(c) == {i \in 1..Len(placements) : CompanyOf(placements[i]) = c}

SetMax(S) == CHOOSE x \in S : \A y \in S : y <= x
SetMin(S) == CHOOSE x \in S : \A y \in S : x <= y

LastOfCompany(c) == placements[SetMax(OffersOfCompany(c))]
FirstOfCompany(c) == placements[SetMin(OffersOfCompany(c))]

MonthOf(p) == MonthLabel(NewDate(p.created_at))

\* C6 as stated: the month of a company record is the month label of the
\* company's last offer.
C6_MonthOfLastOffer ==
    Loaded =>
        \A r \in Range(companyStats) : r.month = MonthOf(LastOfCompany(r.company))

\* C6 amended: the month of a company record is the month label of the
\* company's first offer in input order; it is set when the record is
\* created and not overwritten by later offers of the company.
C6_MonthOfFirstOffer ==
    Loaded =>
        \A r \in Range(companyStats) : r.month = MonthOf(FirstOfCompany(r.company))

\* company A had an offer in Jan 2024, then one in Jan 2025
C6_Witness ==
    /\ Loaded
    /\ Len(placements) >= 2
    /\ placements[1].company = <<"A">> /\ placements[1].created_at = Jan2024
    /\ placements[Len(placements)].company = <<"A">>
    /\ placements[Len(placements)].created_at = Jan2025
    /\ \E r \in Range(companyStats) :
          r.company = <<"A">> /\ r.month = <<"J", "a", "n", " ", "2", "0", "2", "4">>

\* no two elements of the sequence of keys are equal
Distinct(keys) == \A i, j \in 1..Len(keys) : (i # j) => keys[i] # keys[j]

\* the (year, month) pair of an offer; <<-1, -1>> when created_at is no date
YearMonthOf(p) ==
    LET d == NewDate(p.created_at)
    IN  IF d.valid THEN <<d.year, d.month>> ELSE <<0 - 1, 0 - 1>>

OffersOfYearMonth(ym) == {i \in 1..Len(placements) : YearMonthOf(placements[i]) = ym}

\* C9: no two company records share a company, no two branch records a
\* branch; the month records are one per (year, month) pair of the offers,
\* each labelled with and counting the offers of its own pair, so the same
\* month of two years gives two records.
C9_UniqueKeys ==
    Loaded =>
        /\ Distinct([i \in 1..Len(companyStats) |-> companyStats[i].company])
        /\ Distinct([i \in 1..Len(branchStats) |-> branchStats[i].branch])
        /\ Distinct([i \in 1..Len(monthlyTrends) |-> monthlyTrends[i].month])
        /\ Len(monthlyTrends)
              = Cardinality({YearMonthOf(p) : p \in Range(placements)})
        /\ \A i \in 1..Len(placements) :
              \E r \in Range(monthlyTrends) :
                  /\ r.month = MonthOf(placements[i])
                  /\ r.total = Cardinality(OffersOfYearMonth(YearMonthOf(placements[i])))

\* offers of Jan 2024 and Jan 2025 and one with nothing usable in it
C9_Witness ==
    /\ Loaded
    /\ \E i, j, k \in 1..Len(placements) :
          /\ placements[i].created_at = Jan2024
          /\ placements[j].created_at = Jan2025
          /\ placements[k] = Offer(Null, JsNull, Null, Null)
    /\ Len(monthlyTrends) = 3
    /\ Len(companyStats) >= 2
    /\ Len(branchStats) >= 2

\* key contains term, letter case ignored
ContainsIgnoringCase(key, term) ==
    \E off \in 0..(Len(key) - Len(term)) :
        \A k \in 1..Len(term) : LowerChar(key[off + k]) = LowerChar(term[k])

KeptCompanies ==
    {i \in 1..Len(companyStats) :
        /\ ContainsIgnoringCase(companyStats[i].company, search)
        /\ (selectedRange = "all" \/ companyStats[i].ctcRange = selectedRange)}

KeptBranches ==
    {i \in 1..Len(branchStats) : ContainsIgnoringCase(branchStats[i].branch, search)}

\* out holds exactly the records of data at the indices kept, once each
ExactlyKept(out, data, kept) ==
    /\ Len(out) = Cardinality(kept)
    /\ Range(out) = {data[i] : i \in kept}

SortKey(d) ==
    IF sortBy = "students" THEN d.total
    ELSE IF sortBy = "avg" THEN AvgOrZero(d)
    ELSE MedianOrZero(d)

Descending(out) == \A i, j \in 1..Len(out) : (i < j) => SortKey(out[i]) >= SortKey(out[j])

\* C10: the company list shown holds exactly the company records whose name
\* contains the search term, case ignored, and whose ctcRange is the selected
\* range when one is selected; the branch list exactly the branch records
\* whose code contains the term, whatever range is selected; both are in
\* descending order of the key of the sort mode (a record without avg or
\* median counting as 0), and the aggregate collections are left as computed.
C10_FilterAndSort ==
    Loaded =>
        /\ ExactlyKept(filteredCompanies, companyStats, KeptCompanies)
        /\ ExactlyKept(filteredBranches, branchStats, KeptBranches)
        /\ Descending(filteredCompanies)
        /\ Descending(filteredBranches)
        /\ companyStats = CompanyStatsOf(placements)
        /\ branchStats = BranchStatsOf(placements)

\* with "eng" searched and a range selected, of the branches ENG and SCI
\* only ENG is shown, and a company list of two is in descending order
C10_Witness ==
    /\ Loaded
    /\ view = "branch"
    /\ search = <<"e", "n", "g">>
    /\ selectedRange = "30+"
    /\ sortBy = "students"
    /\ Len(branchStats) = 2
    /\ branchStats[1].branch = <<"E", "N", "G">> /\ branchStats[1].total = 1
    /\ branchStats[2].branch = <<"S", "C", "I">> /\ branchStats[2].total = 2
    /\ Len(filteredBranches) = 1
    /\ filteredBranches[1].branch = <<"E", "N", "G">>

Sentinel == <<"U", "N", "K">>

\* characters 2 to 4 of a string (counted from 0), fewer when it is shorter
CharsTwoToFour(reg) ==
    LET last == IF Len(reg) < 5 THEN Len(reg) ELSE 5
    IN  [k \in 1..(IF last > 2 THEN last - 2 ELSE 0) |-> reg[k + 2]]

\* the branch code of an offer as stated: the sentinel for an absent reg_no
BranchOfPresent(p) ==
    IF p.reg_no = Null THEN Sentinel ELSE CharsTwoToFour(p.reg_no)

\* the branch code of an offer: the sentinel for an absent or empty reg_no
BranchOfNonEmpty(p) ==
    IF p.reg_no = Null \/ p.reg_no = <<>> THEN Sentinel ELSE CharsTwoToFour(p.reg_no)

RECURSIVE CtcValuesOf(_, _, _)
\* the compensations, in input order, of the first n offers whose code is b
\* under the coding `code` (a function from offers to codes)
CtcValuesOf(code, b, n) ==
    IF n = 0 THEN <<>>
    ELSE IF code[placements[n]] = b
         THEN Append(CtcValuesOf(code, b, n - 1), CtcOf(placements[n]))
         ELSE CtcValuesOf(code, b, n - 1)

\* one record per code; total, avg and median as those of the code's offers
GroupedByBranch(code) ==
    /\ {r.branch : r \in Range(branchStats)} = {code[p] : p \in Range(placements)}
    /\ \A i, j \in 1..Len(branchStats) :
          (branchStats[i].branch = branchStats[j].branch) => (i = j)
    /\ \A r \in Range(branchStats) :
          LET vals == CtcValuesOf(code, r.branch, Len(placements))
          IN  /\ r.total = Len(vals)
              /\ r.total = Cardinality({i \in 1..Len(placements) :
                                           code[placements[i]] = r.branch})
              /\ r.avg = calcStats(vals).avg
              /\ r.median = calcStats(vals).median

\* C11 as stated: there is one record per branch code, its total the number
\* of offers with that code, its avg and median calcStats of the
\* compensations of exactly those offers (missing or non-numeric as 0); the
\* code is characters 2 to 4 of reg_no, and the sentinel for an absent reg_no.
C11_BranchOfPresentRegNo ==
    Loaded => GroupedByBranch([p \in Range(placements) |-> BranchOfPresent(p)])

\* C11 amended: the same, with the sentinel for an absent or an empty reg_no.
C11_BranchOfNonEmptyRegNo ==
    Loaded => GroupedByBranch([p \in Range(placements) |-> BranchOfNonEmpty(p)])

\* offers with reg_no null, "" and "21BCE1001", the last one without a ctc:
\* the sentinel record counts two offers, "BCE" one offer of compensation 0
C11_Witness ==
    /\ Loaded
    /\ Len(placements) = 3
    /\ placements[1].reg_no = Null /\ CtcOf(placements[1]) = 7
    /\ placements[2].reg_no = <<>> /\ CtcOf(placements[2]) = 12
    /\ placements[3].reg_no = RegBCE /\ placements[3].ctc = JsNull
    /\ Len(branchStats) = 2
    /\ branchStats[1].branch = Sentinel
    /\ branchStats[1].total = 2
    /\ branchStats[1].avg = 950
    /\ branchStats[1].median = 950
    /\ branchStats[2].branch = <<"B", "C", "E">>
    /\ branchStats[2].total = 1
    /\ branchStats[2].median = 0

----------------------------------------------------------------------------
(* Claims about calcStats and getCtcRange *)

Buckets == {"<5", "5-10", "10-15", "15-20", "20+", "30+"}

\* C7: getCtcRange returns one of the six buckets for every number, the one
\* of the interval the number lies in; "20+" only for 20 <= c < 30.
C7_ThresholdLadder ==
    (callRange # NotCalled) =>
        /\ callRange \in Buckets
        /\ (callRange = "<5") <=> (callCtc < 5)
        /\ (callRange = "5-10") <=> (5 <= callCtc /\ callCtc < 10)
        /\ (callRange = "10-15") <=> (10 <= callCtc /\ callCtc < 15)
        /\ (callRange = "15-20") <=> (15 <= callCtc /\ callCtc < 20)
        /\ (callRange = "20+") <=> (20 <= callCtc /\ callCtc < 30)
        /\ (callRange = "30+") <=> (callCtc >= 30)

\* getCtcRange(30) returned "30+"
C7_Witness ==
    /\ callCtc = 30
    /\ callRange = "30+"

\* the k-th smallest element of V, duplicates counted
OrderStatistic(V, k) ==
    CHOOSE x \in Range(V) :
        /\ Cardinality({i \in 1..Len(V) : V[i] < x}) < k
        /\ k <= Cardinality({i \in 1..Len(V) : V[i] <= x})

\* the statistical median of a non-empty V, in hundredths
TrueMedian(V) ==
    IF Len(V) % 2 = 1
    THEN 100 * OrderStatistic(V, (Len(V) + 1) \div 2)
    ELSE 50 * (OrderStatistic(V, Len(V) \div 2) + OrderStatistic(V, (Len(V) \div 2) + 1))

Abs(x) == IF x < 0 THEN 0 - x ELSE x

\* a (in hundredths) is a nearest hundredth of the mean of V
IsRoundedMean(a, V) ==
    2 * Abs(a * Len(V) - 100 * SumSeq(V)) <= Len(V)

\* C8: a call of calcStats returns the statistical median and the mean of
\* its argument, to two decimals, 0 and 0 for the empty array, and leaves the
\* argument in its original order.
C8_MedianAndMean ==
    [][(callStats' # <<>>) =>
          /\ callValues' = callValues
          /\ IF callValues = <<>>
             THEN callStats'[1] = [avg |-> 0, median |-> 0]
             ELSE /\ callStats'[1].median = TrueMedian(callValues)
                  /\ IsRoundedMean(callStats'[1].avg, callValues)]_vars

\* calcStats([3, 0, 2, 0]) returned avg 1.25 and median 1
C8_Witness ==
    /\ callValues = <<3, 0, 2, 0>>
    /\ callStats = <<[avg |-> 125, median |-> 100]>>

----------------------------------------------------------------------------
(* Claims about fetchAllRows and the initial load *)

Returned(t) == pc[t] = "done"

\* the call returned exactly the rows of the table, row i at index i
ReturnsAllRows(t) ==
    /\ result[t] # NoResult
    /\ Len(result[t][1]) = Len(resource[t])
    /\ \A i \in 1..Len(resource[t]) : result[t][1][i] = resource[t][i]

\* C1 as stated: for every row count N and every page size P >= 1 a fetch
\* that returns has returned exactly the N rows, row i at index i.
C1_AnyPageSize ==
    \A t \in Tables : Returned(t) => ReturnsAllRows(t)

\* C1 amended: the same, for every page size P with 1 <= P <= the server's
\* per-request row cap.
C1_PageSizeWithinCap ==
    \A t \in Tables :
        (Returned(t) /\ chunkSize <= rowCap) => ReturnsAllRows(t)

\* one fetch returned N = P + 1 rows and the other N = P rows, P >= 2
C1_Witness ==
    /\ chunkSize >= 2
    /\ chunkSize <= rowCap
    /\ Returned("Offer")
    /\ Returned("Campus_Data")
    /\ Len(resource["Offer"]) = chunkSize + 1
    /\ Len(result["Offer"][1]) = chunkSize + 1
    /\ Len(resource["Campus_Data"]) = chunkSize
    /\ Len(result["Campus_Data"][1]) = chunkSize

Last(s) == s[Len(s)]

Ended(t) == pc[t] \in {"done", "failed"}

\* every page but the last one received was a full page, and the call
\* returned exactly when the last page received was short or empty
StopsAtFirstShortPage(t) ==
    /\ \A k \in 1..(Len(pages[t]) - 1) : pages[t][k] = chunkSize
    /\ Returned(t) <=> (Len(pages[t]) > 0 /\ Last(pages[t]) < chunkSize)

\* request k asks for the offset (k - 1) * chunkSize
OffsetsAdvanceByPageSize(t) ==
    /\ \A k \in 1..Len(offsets[t]) : offsets[t][k] = (k - 1) * chunkSize
    /\ from[t] = chunkSize * Cardinality({k \in 1..Len(pages[t]) : pages[t][k] = chunkSize})
    /\ Len(offsets[t]) <= (Len(resource[t]) \div chunkSize) + 1

ExactMultiple(t) ==
    /\ Len(resource[t]) > 0
    /\ Len(resource[t]) % chunkSize = 0

\* N \div P full pages, then one more request, which returned no rows
OneTrailingEmptyRequest(t) ==
    /\ Len(offsets[t]) = (Len(resource[t]) \div chunkSize) + 1
    /\ Len(pages[t]) = Len(offsets[t])
    /\ Last(pages[t]) = 0

\* C2 as stated, its part on exact multiples: a fetch of a table whose row
\* count is a non-zero multiple of the page size returns after exactly one
\* extra request, which returned zero rows.
C2_TrailingRequestAnyPageSize ==
    \A t \in Tables :
        (Returned(t) /\ ExactMultiple(t)) => OneTrailingEmptyRequest(t)

C2_Safety ==
    \A t \in Tables :
        /\ (pc[t] = "failed") => reported[t] # NoError
        /\ StopsAtFirstShortPage(t)
        /\ OffsetsAdvanceByPageSize(t)
        /\ (Returned(t) /\ ExactMultiple(t) /\ chunkSize <= rowCap)
               => OneTrailingEmptyRequest(t)

\* C2 amended: every fetch ends, and fails only when a request failed; it
\* returns at the first page shorter than the page size, an empty page
\* included; the offset grows by exactly the page size after each full page;
\* and when the row count is a non-zero multiple of a page size that does not
\* exceed the server's row cap, exactly one extra request is issued, which
\* returns zero rows.
C2_TerminatesAtShortPage ==
    /\ []C2_Safety
    /\ \A t \in Tables : <>Ended(t)

\* a fetch of 2 * P rows returned after three requests
C2_Witness ==
    /\ chunkSize <= rowCap
    /\ Returned("Offer")
    /\ Len(resource["Offer"]) = 2 * chunkSize
    /\ pages["Offer"] = <<chunkSize, chunkSize, 0>>
    /\ offsets["Offer"] = <<0, chunkSize, 2 * chunkSize>>

\* C3: a request that reports an error ends the fetch by throwing that
\* error; no further page is requested and the rows accumulated so far are
\* never returned.
C3_ErrorAborts ==
    /\ [](\A t \in Tables :
            /\ (reported[t] # NoError) => pc[t] = "failed"
            /\ (pc[t] = "failed") =>
                  /\ thrown[t] \in Errors
                  /\ thrown[t] = reported[t]
                  /\ result[t] = NoResult
                  /\ inflight[t] = <<>>)
    /\ [][\A t \in Tables :
            (pc[t] = "failed") =>
                /\ pc'[t] = "failed"
                /\ offsets'[t] = offsets[t]
                /\ result'[t] = NoResult]_vars

\* one fetch failed after two full pages, the other on its first page
C3_Witness ==
    /\ pc["Offer"] = "failed"
    /\ Len(pages["Offer"]) = 2
    /\ Len(allRows["Offer"]) = 2 * chunkSize
    /\ pc["Campus_Data"] = "failed"
    /\ pages["Campus_Data"] = <<>>

\* C4: if either fetch fails neither snapshot is updated; a snapshot that was
\* updated comes with the other one from a load whose two fetches returned.
C4_AllOrNothing ==
    /\ (\E t \in Tables : pc[t] = "failed") =>
            (placements = <<>> /\ campusStats = <<>>)
    /\ (placements # <<>> \/ campusStats # <<>> \/
         (loadPc = "done" /\ \A t \in Tables : pc[t] # "failed")) =>
            /\ loadPc = "done"
            /\ \A t \in Tables : Returned(t)
            /\ placements = result["Offer"][1]
            /\ campusStats = CampusMap(result["Campus_Data"][1])
    /\ (loadPc = "await") => (placements = <<>> /\ campusStats = <<>> /\ loading)

\* the offers fetch returned rows, the campus fetch failed, the load is over
C4_Witness ==
    /\ Returned("Offer")
    /\ Len(result["Offer"][1]) > 0
    /\ pc["Campus_Data"] = "failed"
    /\ Len(allRows["Campus_Data"]) > 0
    /\ loadPc = "done"
    /\ placements = <<>>
    /\ campusStats = <<>>


\* the step on which the flag turns false
LoadingTurnsFalse == loading /\ ~loading'

\* both snapshots hold what the two fetches returned
SnapshotsSet ==
    /\ placements = result["Offer"][1]
    /\ campusStats = CampusMap(result["Campus_Data"][1])

\* C12: the loading flag starts true; when every request is answered it
\* becomes false whatever the outcome of the two fetches; on the step that
\* turns it false after both fetches returned, both snapshots are set; and
\* once false it is never true again.
C12_LoadingEnds ==
    /\ loading = TRUE
    /\ <>(loading = FALSE)
    /\ [][(LoadingTurnsFalse /\ \A t \in Tables : Returned(t)) => SnapshotsSet']_vars
    /\ [][(loading = FALSE) => (loading' = FALSE)]_vars

\* the flag is false after both fetches returned rows, over several pages
C12_Witness ==
    /\ loading = FALSE
    /\ \A t \in Tables : Returned(t) /\ Len(pages[t]) > 1
    /\ Len(placements) > 1
    /\ Len(campusStats) > 1

====
